---- MODULE Spec2Model ----
(***************************************************************************)
(* Pixel-level model of the postcard sheet pipeline of src/main.py:        *)
(* bleed extension (smear and flip), cut-line overlay, rotation, stacking  *)
(* of two images (bleed_stack_cut), the crop to the paper size and the     *)
(* batch loop of process_images.                                           *)
(*                                                                         *)
(* An image is a record [w, h, px] with px a function on the grid          *)
(* (0..w-1) \X (0..h-1) (x first, y second, as PIL addresses pixels); a    *)
(* numpy array is a record [n, a] (one axis of pixels) or [rows, cols, a]  *)
(* (two axes, row first).  A pixel is an RGBA tuple.                       *)
(***************************************************************************)
EXTENDS Integers, Sequences, FiniteSets, TLC

VARIABLES
    pc,          \* position of the running call
    raised,      \* the exception that left the running call, or "none"
    image_1,     \* first input image
    image_2,     \* second input image
    bleed_size,  \* bleed_size argument
    line_length, \* line_length argument / CUT_LINE_LENGTH
    add_bleed,   \* module-level binding add_bleed: "smear" or "flip"
    rotator,     \* rotator argument: "left" or "right"
    bled,        \* image returned by add_bleed_smear / add_bleed_flip
    cut_1,       \* image_1 of bleed_stack_cut after transform_image
    cut_2,       \* image_2 of bleed_stack_cut after transform_image
    result,      \* image returned by add_cut_lines / bleed_stack_cut
    cropped,     \* the sheet cropped to TARGET_SIZE by process_images
    sources,     \* sorted(SOURCE_FOLDER.iterdir()): the files of the batch
    target_size, \* TARGET_SIZE
    batch,       \* index i of the pair being processed
    tater,       \* index into taters of the next variant of the pair
    saved        \* files written to RESULTS_FOLDER: name -> image

vars == <<pc, raised, image_1, image_2, bleed_size, line_length, add_bleed,
          rotator, bled, cut_1, cut_2, result, cropped, sources, target_size,
          batch, tater, saved>>

----------------------------------------------------------------------------
(* Bounds of the model *)

MaxDim == 3
MaxBleed == 4
MaxOrig == 6
MaxCutBleed == 2
MaxLine == 2
MaxStackDim == 2
MaxStackBleed == 2
MaxStackLine == 2
MaxFiles == 4
MaxTarget == 6

----------------------------------------------------------------------------
(* Module constants *)

PAD_COLOR == <<0, 0, 0, 0>>
CUT_LINES_COLOR == <<255, 0, 0, 255>>
CUT_LINE_OFFSET == 2

----------------------------------------------------------------------------
(* PIL.Image primitives.  In each, d, s, im or v stands for the argument,   *)
(* bound once so that it is evaluated a single time.                       *)

Grid(w, h) == (0 .. w - 1) \X (0 .. h - 1)

\* Image.new('RGBA', (w, h), color)
ImageNew(w, h, color) == [w |-> w, h |-> h, px |-> [p \in Grid(w, h) |-> color]]

\* dst.paste(src, (x0, y0)): the box is clipped to dst; no mask, so every
\* covered pixel is overwritten, alpha included.
Paste(dst, src, x0, y0) ==
    CHOOSE r \in
        { [d EXCEPT !.px =
              [p \in Grid(d.w, d.h) |->
                  IF /\ x0 <= p[1] /\ p[1] < x0 + s.w
                     /\ y0 <= p[2] /\ p[2] < y0 + s.h
                  THEN s.px[<<p[1] - x0, p[2] - y0>>]
                  ELSE d.px[p]]] : d \in {dst}, s \in {src} } : TRUE

\* image.crop((left, upper, right, lower)): size (right-left, lower-upper);
\* the part of the box outside the image reads as zeros.
Crop(image, left, upper, right, lower) ==
    CHOOSE r \in
        { [w |-> right - left, h |-> lower - upper,
           px |-> [p \in Grid(right - left, lower - upper) |->
                      IF /\ 0 <= p[1] + left  /\ p[1] + left  < im.w
                         /\ 0 <= p[2] + upper /\ p[2] + upper < im.h
                      THEN im.px[<<p[1] + left, p[2] + upper>>]
                      ELSE <<0, 0, 0, 0>>]] : im \in {image} } : TRUE

\* flip_left_right that leaves the image as it is
flip_left_right_unflipped(image) == image

\* image.transpose(Image.FLIP_LEFT_RIGHT)
flip_left_right(image) ==
    CHOOSE r \in
        { [im EXCEPT !.px =
              [p \in Grid(im.w, im.h) |-> im.px[<<im.w - 1 - p[1], p[2]>>]]]
          : im \in {image} } : TRUE

\* image.transpose(Image.FLIP_TOP_BOTTOM)
flip_top_bottom(image) ==
    CHOOSE r \in
        { [im EXCEPT !.px =
              [p \in Grid(im.w, im.h) |-> im.px[<<p[1], im.h - 1 - p[2]>>]]]
          : im \in {image} } : TRUE

\* image.transpose(Image.ROTATE_90): a quarter turn counter-clockwise
rotate_left(image) ==
    CHOOSE r \in
        { [w |-> im.h, h |-> im.w,
           px |-> [p \in Grid(im.h, im.w) |-> im.px[<<im.w - 1 - p[2], p[1]>>]]]
          : im \in {image} } : TRUE

\* image.transpose(Image.ROTATE_270): a quarter turn clockwise
rotate_right(image) ==
    CHOOSE r \in
        { [w |-> im.h, h |-> im.w,
           px |-> [p \in Grid(im.h, im.w) |-> im.px[<<p[2], im.h - 1 - p[1]>>]]]
          : im \in {image} } : TRUE

----------------------------------------------------------------------------
(* numpy primitives *)

\* image_array[r, :, :] of np.asarray(image): row r, one pixel per column
ArrayRow(image, r) == [n |-> image.w, a |-> [c \in 0 .. image.w - 1 |-> image.px[<<c, r>>]]]

\* image_array[:, c, :] of np.asarray(image): column c, one pixel per row
ArrayCol(image, c) == [n |-> image.h, a |-> [r \in 0 .. image.h - 1 |-> image.px[<<c, r>>]]]

\* Image.fromarray(arr) of an array of shape (rows, cols, 4)
FromArray(arr) ==
    CHOOSE r \in
        { [w |-> v.cols, h |-> v.rows,
           px |-> [p \in Grid(v.cols, v.rows) |-> v.a[<<p[2], p[1]>>]]]
          : v \in {arr} } : TRUE

\* np.repeat(np.expand_dims(arr, axis=axis_index), size, axis_index) of a
\* one-axis array of pixels: the new axis has length size.
smear(arr, size, axis_index) ==
    CHOOSE r \in
        { IF axis_index = 0
          THEN [rows |-> size, cols |-> v.n,
                a |-> [q \in (0 .. size - 1) \X (0 .. v.n - 1) |-> v.a[q[2]]]]
          ELSE [rows |-> v.n, cols |-> size,
                a |-> [q \in (0 .. v.n - 1) \X (0 .. size - 1) |-> v.a[q[1]]]]
          : v \in {arr} } : TRUE

\* smear(smear(pixel, size, 0), size, 0): the first smear makes a row of size
\* copies of the pixel, the second a size x size square.
single_pixel_smear(pixel, size) ==
    smear([n |-> size, a |-> [c \in 0 .. size - 1 |-> pixel]], size, 0)

\* int(x / 2) of Python: the quotient truncated toward zero
HalfTrunc(x) == IF x >= 0 THEN x \div 2 ELSE -((-x) \div 2)

----------------------------------------------------------------------------
(* Bleed extension *)

add_corner_bleed(image, bled_image, bleed_size_) ==
    LET half_bleed   == HalfTrunc(bleed_size_)
        width        == image.w
        height       == image.h
        top_left     == single_pixel_smear(image.px[<<0, 0>>], half_bleed)
        top_right    == single_pixel_smear(image.px[<<width - 1, 0>>], half_bleed)
        bottom_left  == single_pixel_smear(image.px[<<0, height - 1>>], half_bleed)
        bottom_right == single_pixel_smear(image.px[<<width - 1, height - 1>>], half_bleed)
        p1 == Paste(bled_image, FromArray(top_left),
                    bleed_size_ - half_bleed, bleed_size_ - half_bleed)
        p2 == Paste(p1, FromArray(top_right),
                    width + bleed_size_, bleed_size_ - half_bleed)
        p3 == Paste(p2, FromArray(bottom_left),
                    bleed_size_ - half_bleed, height + bleed_size_)
        p4 == Paste(p3, FromArray(bottom_right),
                    width + bleed_size_, height + bleed_size_)
    IN  p4

add_bleed_smear(image, bleed_size_) ==
    LET width      == image.w
        height     == image.h
        new_width  == width + (2 * bleed_size_)
        new_height == height + (2 * bleed_size_)
        b0     == Paste(ImageNew(new_width, new_height, PAD_COLOR), image,
                        bleed_size_, bleed_size_)
        top    == smear(ArrayRow(image, 0), bleed_size_, 0)
        bottom == smear(ArrayRow(image, height - 1), bleed_size_, 0)
        left   == smear(ArrayCol(image, 0), bleed_size_, 1)
        right  == smear(ArrayCol(image, width - 1), bleed_size_, 1)
        b1 == Paste(b0, FromArray(top), bleed_size_, 0)
        b2 == Paste(b1, FromArray(bottom), bleed_size_, height + bleed_size_)
        b3 == Paste(b2, FromArray(left), 0, bleed_size_)
        b4 == Paste(b3, FromArray(right), width + bleed_size_, bleed_size_)
    IN  add_corner_bleed(image, b4, bleed_size_)

\* add_bleed_flip with the bottom strip pasted at height, the top bleed margin
\* forgotten.
add_bleed_flip_bottom_at_height(image, bleed_size_) ==
    LET width      == image.w
        height     == image.h
        new_width  == width + (2 * bleed_size_)
        new_height == height + (2 * bleed_size_)
        b0     == Paste(ImageNew(new_width, new_height, PAD_COLOR), image,
                        bleed_size_, bleed_size_)
        top    == flip_top_bottom(Crop(image, 0, 0, width, bleed_size_))
        bottom == flip_top_bottom(Crop(image, 0, height - bleed_size_, width, height))
        left   == flip_left_right(Crop(image, 0, 0, bleed_size_, height))
        right  == flip_left_right(Crop(image, width - bleed_size_, 0, width, height))
        b1 == Paste(b0, top, bleed_size_, 0)
        b2 == Paste(b1, bottom, bleed_size_, height)
        b3 == Paste(b2, left, 0, bleed_size_)
        b4 == Paste(b3, right, width + bleed_size_, bleed_size_)
    IN  add_corner_bleed(image, b4, bleed_size_)

add_bleed_flip(image, bleed_size_) ==
    LET width      == image.w
        height     == image.h
        new_width  == width + (2 * bleed_size_)
        new_height == height + (2 * bleed_size_)
        b0     == Paste(ImageNew(new_width, new_height, PAD_COLOR), image,
                        bleed_size_, bleed_size_)
        top    == flip_top_bottom(Crop(image, 0, 0, width, bleed_size_))
        bottom == flip_top_bottom(Crop(image, 0, height - bleed_size_, width, height))
        left   == flip_left_right(Crop(image, 0, 0, bleed_size_, height))
        right  == flip_left_right(Crop(image, width - bleed_size_, 0, width, height))
        b1 == Paste(b0, top, bleed_size_, 0)
        b2 == Paste(b1, bottom, bleed_size_, height + bleed_size_)
        b3 == Paste(b2, left, 0, bleed_size_)
        b4 == Paste(b3, right, width + bleed_size_, bleed_size_)
    IN  add_corner_bleed(image, b4, bleed_size_)

----------------------------------------------------------------------------
(* Cut lines *)

\* add_cut_lines with the bottom marks placed at orig_height, the bleed
\* margin forgotten.
add_cut_lines_bottom_in_bleed(image, bleed_size_, line_length_) ==
    LET AbsX(x) == x + line_length_ + bleed_size_
        AbsY(y) == y + line_length_ + bleed_size_
        orig_width  == image.w - (2 * bleed_size_)
        orig_height == image.h - (2 * bleed_size_)
        vertical_cut_line   == ImageNew(2, line_length_, CUT_LINES_COLOR)
        horizontal_cut_line == ImageNew(line_length_, 2, CUT_LINES_COLOR)
        r0 == Paste(ImageNew(image.w + (2 * line_length_), image.h + (2 * line_length_),
                             PAD_COLOR), image, line_length_, line_length_)
        r1 == Paste(r0, vertical_cut_line, AbsX(CUT_LINE_OFFSET - 1),
                    AbsY(-1 * (bleed_size_ + line_length_)))
        r2 == Paste(r1, vertical_cut_line, AbsX(orig_width - 1 - CUT_LINE_OFFSET),
                    AbsY(-1 * (bleed_size_ + line_length_)))
        r3 == Paste(r2, vertical_cut_line, AbsX(CUT_LINE_OFFSET - 1),
                    AbsY(orig_height))
        r4 == Paste(r3, vertical_cut_line, AbsX(orig_width - 1 - CUT_LINE_OFFSET),
                    AbsY(orig_height))
        r5 == Paste(r4, horizontal_cut_line, AbsX(-1 * (bleed_size_ + line_length_)),
                    AbsY(CUT_LINE_OFFSET - 1))
        r6 == Paste(r5, horizontal_cut_line, AbsX(-1 * (bleed_size_ + line_length_)),
                    AbsY(orig_height - 1 - CUT_LINE_OFFSET))
        r7 == Paste(r6, horizontal_cut_line, AbsX(orig_width + bleed_size_),
                    AbsY(CUT_LINE_OFFSET - 1))
        r8 == Paste(r7, horizontal_cut_line, AbsX(orig_width + bleed_size_),
                    AbsY(orig_height - 1 - CUT_LINE_OFFSET))
    IN  r8

\* add_cut_lines with the far marks one pixel off: orig - CUT_LINE_OFFSET
\* instead of orig - 1 - CUT_LINE_OFFSET.
add_cut_lines_far_off_by_one(image, bleed_size_, line_length_) ==
    LET AbsX(x) == x + line_length_ + bleed_size_
        AbsY(y) == y + line_length_ + bleed_size_
        orig_width  == image.w - (2 * bleed_size_)
        orig_height == image.h - (2 * bleed_size_)
        vertical_cut_line   == ImageNew(2, line_length_, CUT_LINES_COLOR)
        horizontal_cut_line == ImageNew(line_length_, 2, CUT_LINES_COLOR)
        r0 == Paste(ImageNew(image.w + (2 * line_length_), image.h + (2 * line_length_),
                             PAD_COLOR), image, line_length_, line_length_)
        r1 == Paste(r0, vertical_cut_line, AbsX(CUT_LINE_OFFSET - 1),
                    AbsY(-1 * (bleed_size_ + line_length_)))
        r2 == Paste(r1, vertical_cut_line, AbsX(orig_width - CUT_LINE_OFFSET),
                    AbsY(-1 * (bleed_size_ + line_length_)))
        r3 == Paste(r2, vertical_cut_line, AbsX(CUT_LINE_OFFSET - 1),
                    AbsY(orig_height + bleed_size_))
        r4 == Paste(r3, vertical_cut_line, AbsX(orig_width - CUT_LINE_OFFSET),
                    AbsY(orig_height + bleed_size_))
        r5 == Paste(r4, horizontal_cut_line, AbsX(-1 * (bleed_size_ + line_length_)),
                    AbsY(CUT_LINE_OFFSET - 1))
        r6 == Paste(r5, horizontal_cut_line, AbsX(-1 * (bleed_size_ + line_length_)),
                    AbsY(orig_height - CUT_LINE_OFFSET))
        r7 == Paste(r6, horizontal_cut_line, AbsX(orig_width + bleed_size_),
                    AbsY(CUT_LINE_OFFSET - 1))
        r8 == Paste(r7, horizontal_cut_line, AbsX(orig_width + bleed_size_),
                    AbsY(orig_height - CUT_LINE_OFFSET))
    IN  r8

\* absolute(x, y) maps coordinates relative to the top left of the original
\* image to coordinates of the result (AbsX, AbsY below).
add_cut_lines(image, bleed_size_, line_length_) ==
    LET AbsX(x) == x + line_length_ + bleed_size_
        AbsY(y) == y + line_length_ + bleed_size_
        orig_width  == image.w - (2 * bleed_size_)
        orig_height == image.h - (2 * bleed_size_)
        vertical_cut_line   == ImageNew(2, line_length_, CUT_LINES_COLOR)
        horizontal_cut_line == ImageNew(line_length_, 2, CUT_LINES_COLOR)
        r0 == Paste(ImageNew(image.w + (2 * line_length_), image.h + (2 * line_length_),
                             PAD_COLOR), image, line_length_, line_length_)
        \* top
        r1 == Paste(r0, vertical_cut_line, AbsX(CUT_LINE_OFFSET - 1),
                    AbsY(-1 * (bleed_size_ + line_length_)))
        r2 == Paste(r1, vertical_cut_line, AbsX(orig_width - 1 - CUT_LINE_OFFSET),
                    AbsY(-1 * (bleed_size_ + line_length_)))
        \* bottom
        r3 == Paste(r2, vertical_cut_line, AbsX(CUT_LINE_OFFSET - 1),
                    AbsY(orig_height + bleed_size_))
        r4 == Paste(r3, vertical_cut_line, AbsX(orig_width - 1 - CUT_LINE_OFFSET),
                    AbsY(orig_height + bleed_size_))
        \* left
        r5 == Paste(r4, horizontal_cut_line, AbsX(-1 * (bleed_size_ + line_length_)),
                    AbsY(CUT_LINE_OFFSET - 1))
        r6 == Paste(r5, horizontal_cut_line, AbsX(-1 * (bleed_size_ + line_length_)),
                    AbsY(orig_height - 1 - CUT_LINE_OFFSET))
        \* right
        r7 == Paste(r6, horizontal_cut_line, AbsX(orig_width + bleed_size_),
                    AbsY(CUT_LINE_OFFSET - 1))
        r8 == Paste(r7, horizontal_cut_line, AbsX(orig_width + bleed_size_),
                    AbsY(orig_height - 1 - CUT_LINE_OFFSET))
    IN  r8

----------------------------------------------------------------------------
(* Stacking *)

Max(a, b) == IF a >= b THEN a ELSE b

\* add_bleed(image, bleed_size) under the module-level binding add_bleed
AddBleed(mode, image, bleed_size_) ==
    IF mode = "smear" THEN add_bleed_smear(image, bleed_size_)
                      ELSE add_bleed_flip(image, bleed_size_)

\* rotator(image) for an entry of taters
Rotate(rotator_, image) ==
    IF rotator_ = "left" THEN rotate_left(image) ELSE rotate_right(image)

\* transform_image of bleed_stack_cut; line_length_ is CUT_LINE_LENGTH
\* (bled_, rotated: the intermediate images, each evaluated once)
transform_image(mode, rotator_, image, bleed_size_, line_length_) ==
    CHOOSE r \in
        { add_cut_lines(rotated, bleed_size_, line_length_) :
            rotated \in { Rotate(rotator_, bled_) :
                            bled_ \in {AddBleed(mode, image, bleed_size_)} } } : TRUE

\* bleed_stack_cut whose sheet height forgets the overlap of the two images
bleed_stack_cut_no_overlap_height(mode, rotator_, image_1_, image_2_, bleed_size_, line_length_) ==
    CHOOSE r \in
        { LET c2 == Crop(t2, 0, line_length_, t2.w, t2.h)
              new_width  == Max(t1.w, c2.w)
              new_height == t1.h + c2.h
              r0 == ImageNew(new_width, new_height, PAD_COLOR)
              r1 == Paste(r0, t1, 0, 0)
          IN  Paste(r1, c2, 0, t1.h - (1 * line_length_))
          : t1 \in {transform_image(mode, rotator_, image_1_, bleed_size_, line_length_)},
            t2 \in {transform_image(mode, rotator_, image_2_, bleed_size_, line_length_)} } : TRUE

\* bleed_stack_cut that pastes the second image below the first one's margin
bleed_stack_cut_paste_below(mode, rotator_, image_1_, image_2_, bleed_size_, line_length_) ==
    CHOOSE r \in
        { LET c2 == Crop(t2, 0, line_length_, t2.w, t2.h)
              new_width  == Max(t1.w, c2.w)
              new_height == t1.h + c2.h - (1 * line_length_)
              r0 == ImageNew(new_width, new_height, PAD_COLOR)
              r1 == Paste(r0, t1, 0, 0)
          IN  Paste(r1, c2, 0, t1.h)
          : t1 \in {transform_image(mode, rotator_, image_1_, bleed_size_, line_length_)},
            t2 \in {transform_image(mode, rotator_, image_2_, bleed_size_, line_length_)} } : TRUE

\* t1, t2: image_1 and image_2 after transform_image; c2: image_2 after the
\* crop of its top cut lines.
bleed_stack_cut(mode, rotator_, image_1_, image_2_, bleed_size_, line_length_) ==
    CHOOSE r \in
        { LET c2 == Crop(t2, 0, line_length_, t2.w, t2.h)
              new_width  == Max(t1.w, c2.w)
              new_height == t1.h + c2.h - (1 * line_length_)
              r0 == ImageNew(new_width, new_height, PAD_COLOR)
              r1 == Paste(r0, t1, 0, 0)
          IN  Paste(r1, c2, 0, t1.h - (1 * line_length_))
          : t1 \in {transform_image(mode, rotator_, image_1_, bleed_size_, line_length_)},
            t2 \in {transform_image(mode, rotator_, image_2_, bleed_size_, line_length_)} } : TRUE

----------------------------------------------------------------------------
(* The crop to the paper size and the batch loop *)

\* taters: the variants made of every pair, with their rotators
taters == <<"left", "right">>

\* The crop of process_images with the box clamped to the sheet
crop_to_target_clamped(bsc_image, target) ==
    LET left  == Max(0, HalfTrunc(bsc_image.w - target[1]))
        upper == Max(0, HalfTrunc(bsc_image.h - target[2]))
        right == IF left + target[1] <= bsc_image.w THEN left + target[1] ELSE bsc_image.w
        lower == IF upper + target[2] <= bsc_image.h THEN upper + target[2] ELSE bsc_image.h
    IN  Crop(bsc_image, left, upper, right, lower)

\* crop_topleft_coord, crop_bottomright_coord and bsc_image.crop of
\* process_images; target is (TARGET_WIDTH, TARGET_HEIGHT).
crop_to_target(bsc_image, target) ==
    LET crop_topleft_coord == <<HalfTrunc(bsc_image.w - target[1]),
                                HalfTrunc(bsc_image.h - target[2])>>
        crop_bottomright_coord == <<crop_topleft_coord[1] + target[1],
                                    crop_topleft_coord[2] + target[2]>>
    IN  Crop(bsc_image, crop_topleft_coord[1], crop_topleft_coord[2],
             crop_bottomright_coord[1], crop_bottomright_coord[2])

----------------------------------------------------------------------------
(* Input images *)

Patterns == {"coords", "blue", "clear"}

\* An opened source file: every pixel distinct ("coords", red channel = id),
\* one opaque colour ("blue") or fully transparent ("clear").
SourceImage(id, w, h, pattern) ==
    [w |-> w, h |-> h,
     px |-> [p \in Grid(w, h) |->
                CASE pattern = "coords" -> <<id, p[1], p[2], 255>>
                  [] pattern = "blue"   -> <<0, 0, 255, 255>>
                  [] OTHER              -> <<0, 0, 0, 0>>]]

NoImage == ImageNew(0, 0, PAD_COLOR)

----------------------------------------------------------------------------
(* Specification of the bleed extension: one call of add_bleed_smear or    *)
(* add_bleed_flip on an input image.                                       *)

InitBleed ==
    /\ pc = "start"
    /\ raised = "none"
    /\ \E w \in 1 .. MaxDim, h \in 1 .. MaxDim, pat \in Patterns :
          image_1 = SourceImage(1, w, h, pat)
    /\ bleed_size \in 0 .. MaxBleed
    /\ image_2 = NoImage
    /\ line_length = 0
    /\ add_bleed = "none"
    /\ rotator = "none"
    /\ bled = NoImage
    /\ cut_1 = NoImage
    /\ cut_2 = NoImage
    /\ result = NoImage
    /\ cropped = NoImage
    /\ sources = <<>>
    /\ target_size = <<0, 0>>
    /\ batch = 0
    /\ tater = 0
    /\ saved = <<>>

CallAddBleedSmear ==
    /\ pc = "start"
    /\ bled' = add_bleed_smear(image_1, bleed_size)
    /\ add_bleed' = "smear"
    /\ pc' = "bled"
    /\ UNCHANGED <<raised, image_1, image_2, bleed_size, line_length, rotator,
                   cut_1, cut_2, result, cropped, sources, target_size, batch, tater, saved>>

CallAddBleedFlip ==
    /\ pc = "start"
    /\ bled' = add_bleed_flip(image_1, bleed_size)
    /\ add_bleed' = "flip"
    /\ pc' = "bled"
    /\ UNCHANGED <<raised, image_1, image_2, bleed_size, line_length, rotator,
                   cut_1, cut_2, result, cropped, sources, target_size, batch, tater, saved>>

NextBleed == CallAddBleedSmear \/ CallAddBleedFlip

SpecBleed == InitBleed /\ [][NextBleed]_vars

----------------------------------------------------------------------------
(* Properties of the bleed extension *)

Even(n) == n % 2 = 0

\* The pixels add_corner_bleed writes: those that differ from a canvas filled
\* with a colour no source image holds.
Marker == <<9, 9, 9, 9>>

CornerFillWrites(image, bleed_size_) ==
    LET blank  == ImageNew(image.w + 2 * bleed_size_, image.h + 2 * bleed_size_, Marker)
        filled == add_corner_bleed(image, blank, bleed_size_)
    IN  {p \in Grid(blank.w, blank.h) : filled.px[p] # Marker}

\* The four corner margin squares of a bled canvas, each with the pixel of
\* the original image at that corner.
CornerSquares(image, bleed_size_) ==
    LET b == bleed_size_
        w == image.w
        h == image.h
    IN  { [xs |-> 0 .. b - 1,         ys |-> 0 .. b - 1,         src |-> <<0, 0>>],
          [xs |-> w + b .. w + 2*b - 1, ys |-> 0 .. b - 1,         src |-> <<w - 1, 0>>],
          [xs |-> 0 .. b - 1,         ys |-> h + b .. h + 2*b - 1, src |-> <<0, h - 1>>],
          [xs |-> w + b .. w + 2*b - 1, ys |-> h + b .. h + 2*b - 1, src |-> <<w - 1, h - 1>>] }

InCornerSquare(image, bleed_size_, p) ==
    \E sq \in CornerSquares(image, bleed_size_) : p[1] \in sq.xs /\ p[2] \in sq.ys

\* C1: for an even bleed_size b >= 0, in both bleed modes, the output has
\* size (w + 2b, h + 2b) and its w x h region at offset (b, b) equals the
\* input pixel for pixel; for b = 0 the output equals the input.
C1_SizeAndCentre ==
    (pc = "bled" /\ Even(bleed_size)) =>
        /\ bled.w = image_1.w + 2 * bleed_size
        /\ bled.h = image_1.h + 2 * bleed_size
        /\ \A p \in Grid(image_1.w, image_1.h) :
              bled.px[<<p[1] + bleed_size, p[2] + bleed_size>>] = image_1.px[p]
        /\ (bleed_size = 0 => bled = image_1)

C1_Witness ==
    /\ pc = "bled"
    /\ add_bleed = "flip"
    /\ bleed_size = 2
    /\ image_1 = SourceImage(1, 3, 2, "coords")
    /\ bled.w = 7 /\ bled.h = 6

\* C2: for an even bleed_size b > 0, every pixel of each of the four b x b
\* corner squares holds the corner pixel of the original image, and the
\* corner fill writes only inside the corner squares (none of its pixels
\* belongs to an edge strip or to the original image region).
C2_CornersTiled ==
    (pc = "bled" /\ Even(bleed_size) /\ bleed_size > 0) =>
        /\ \A sq \in CornerSquares(image_1, bleed_size) :
              \A x \in sq.xs, y \in sq.ys : bled.px[<<x, y>>] = image_1.px[sq.src]
        /\ \A p \in CornerFillWrites(image_1, bleed_size) :
              InCornerSquare(image_1, bleed_size, p)

\* C8: an odd bleed_size is rejected with InvalidArgument and no output
\* image is produced.
C8_OddBleedRejected ==
    (pc = "bled" /\ ~Even(bleed_size)) =>
        /\ raised = "InvalidArgument"
        /\ bled = NoImage

\* C10: in flip mode with an image at least bleed_size wide and high, row k
\* of the top margin counted upward from the image's top edge equals row k of
\* the image counted downward from that edge, for every k < bleed_size and
\* every column of the image; likewise for the bottom, left and right margins.
C10_FlipMirrors ==
    (/\ pc = "bled" /\ add_bleed = "flip"
     /\ bleed_size <= image_1.w /\ bleed_size <= image_1.h) =>
        LET b == bleed_size
            w == image_1.w
            h == image_1.h
        IN  /\ \A k \in 0 .. b - 1, x \in 0 .. w - 1 :
                  /\ bled.px[<<b + x, b - 1 - k>>] = image_1.px[<<x, k>>]
                  /\ bled.px[<<b + x, h + b + k>>] = image_1.px[<<x, h - 1 - k>>]
            /\ \A k \in 0 .. b - 1, y \in 0 .. h - 1 :
                  /\ bled.px[<<b - 1 - k, b + y>>] = image_1.px[<<k, y>>]
                  /\ bled.px[<<w + b + k, b + y>>] = image_1.px[<<w - 1 - k, y>>]

C10_Witness ==
    /\ pc = "bled"
    /\ add_bleed = "flip"
    /\ bleed_size = 2
    /\ image_1 = SourceImage(1, 3, 3, "coords")
    /\ bled.px[<<0, 2>>] = <<1, 1, 0, 255>>
    /\ bled.px[<<2, 0>>] = <<1, 0, 1, 255>>

----------------------------------------------------------------------------
(* Specification of the cut-line overlay: an input image is bled (either   *)
(* mode), then add_cut_lines is called on the bled image with the same     *)
(* bleed_size.                                                             *)

InitCut ==
    /\ pc = "start"
    /\ raised = "none"
    /\ \E w \in 1 .. MaxOrig, h \in 1 .. MaxOrig :
          image_1 = SourceImage(1, w, h, "coords")
    /\ bleed_size \in 0 .. MaxCutBleed
    /\ line_length \in 1 .. MaxLine
    /\ image_2 = NoImage
    /\ add_bleed = "none"
    /\ rotator = "none"
    /\ bled = NoImage
    /\ cut_1 = NoImage
    /\ cut_2 = NoImage
    /\ result = NoImage
    /\ cropped = NoImage
    /\ sources = <<>>
    /\ target_size = <<0, 0>>
    /\ batch = 0
    /\ tater = 0
    /\ saved = <<>>

CallAddCutLines ==
    /\ pc = "bled"
    /\ result' = add_cut_lines(bled, bleed_size, line_length)
    /\ pc' = "cut"
    /\ UNCHANGED <<raised, image_1, image_2, bleed_size, line_length, add_bleed,
                   rotator, bled, cut_1, cut_2, cropped, sources, target_size, batch,
                   tater, saved>>

NextCut == CallAddBleedSmear \/ CallAddBleedFlip \/ CallAddCutLines

SpecCut == InitCut /\ [][NextCut]_vars

----------------------------------------------------------------------------
(* Properties of the cut-line overlay *)

\* The pixels of the result that add_cut_lines paints with a mark: the red
\* pixels of its result on an image that holds no red.
MarkPixels(w, h, bleed_size_, line_length_) ==
    LET r == add_cut_lines(ImageNew(w, h, Marker), bleed_size_, line_length_)
    IN  {p \in Grid(r.w, r.h) : r.px[p] = CUT_LINES_COLOR}

Rect(x, y, w, h) == [x |-> x, y |-> y, w |-> w, h |-> h]

RectPixels(r) == (r.x .. r.x + r.w - 1) \X (r.y .. r.y + r.h - 1)

\* The eight marks of section 4.2, by the stated offsets from the top left of
\* the original image, mapped to the canvas by (x + L + b, y + L + b).
\* w, h: size of the bled image.
ExpectedMarks(w, h, bleed_size_, line_length_) ==
    LET b  == bleed_size_
        L  == line_length_
        ow == w - 2 * b
        oh == h - 2 * b
        near  == CUT_LINE_OFFSET - 1
        xfar  == ow - 1 - CUT_LINE_OFFSET
        yfar  == oh - 1 - CUT_LINE_OFFSET
    IN  << Rect(near + L + b, 0, 2, L),      Rect(xfar + L + b, 0, 2, L),
           Rect(near + L + b, h + L, 2, L),  Rect(xfar + L + b, h + L, 2, L),
           Rect(0, near + L + b, L, 2),      Rect(0, yfar + L + b, L, 2),
           Rect(w + L, near + L + b, L, 2),  Rect(w + L, yfar + L + b, L, 2) >>

\* A pixel of the canvas outside the pasted bled image.
InMargin(p, w, h, line_length_) ==
    ~ (/\ line_length_ <= p[1] /\ p[1] < line_length_ + w
       /\ line_length_ <= p[2] /\ p[2] < line_length_ + h)

\* The canvas is enlarged by line_length on every side, the bled image sits
\* unaltered at (line_length, line_length), every mark pixel lies in the
\* added margin and the rest of the margin keeps the pad colour.
CutLinesOverlay ==
    LET L == line_length
        marks == MarkPixels(bled.w, bled.h, bleed_size, L)
    IN  /\ result.w = bled.w + 2 * L
        /\ result.h = bled.h + 2 * L
        /\ \A p \in Grid(bled.w, bled.h) : result.px[<<p[1] + L, p[2] + L>>] = bled.px[p]
        /\ \A p \in Grid(image_1.w, image_1.h) :
              result.px[<<p[1] + bleed_size + L, p[2] + bleed_size + L>>] = image_1.px[p]
        /\ \A p \in Grid(result.w, result.h) :
              InMargin(p, bled.w, bled.h, L) =>
                 result.px[p] = (IF p \in marks THEN CUT_LINES_COLOR ELSE PAD_COLOR)
        /\ \A p \in marks : InMargin(p, bled.w, bled.h, L)

\* Eight mark rectangles appear: four 2 x line_length and four
\* line_length x 2, each whole inside the canvas, no two sharing a pixel,
\* and together they are all the mark pixels.
EightMarksAppear ==
    LET L  == line_length
        em == ExpectedMarks(bled.w, bled.h, bleed_size, L)
    IN  /\ \A i \in 1 .. 8 : RectPixels(em[i]) \subseteq Grid(result.w, result.h)
        /\ \A i \in 1 .. 8 : \A p \in RectPixels(em[i]) :
              InMargin(p, bled.w, bled.h, L) /\ result.px[p] = CUT_LINES_COLOR
        /\ \A i \in 1 .. 8, j \in 1 .. 8 :
              i # j => RectPixels(em[i]) \cap RectPixels(em[j]) = {}
        /\ MarkPixels(bled.w, bled.h, bleed_size, L)
              = UNION {RectPixels(em[i]) : i \in 1 .. 8}

\* C5 as stated: for every bled image, bleed_size and line_length the canvas
\* has size (W + 2L, H + 2L), the image pasted at (L, L) is unaltered, and
\* exactly 8 opaque-red mark rectangles appear, all inside the added margin.
C5_AlwaysEightMarks ==
    pc = "cut" => (CutLinesOverlay /\ EightMarksAppear)

\* C5 amended: the overlay part holds for every image; the eight rectangles
\* appear separately whenever the original image is at least
\* 2 * CUT_LINE_OFFSET + 2 pixels wide and high.
C5_OverlayAndMarks ==
    pc = "cut" =>
        /\ CutLinesOverlay
        /\ (/\ image_1.w >= 2 * CUT_LINE_OFFSET + 2
            /\ image_1.h >= 2 * CUT_LINE_OFFSET + 2) => EightMarksAppear

C5_Witness ==
    /\ pc = "cut"
    /\ image_1.w = 6 /\ image_1.h = 6
    /\ bleed_size = 2
    /\ line_length = 2
    /\ Cardinality(MarkPixels(bled.w, bled.h, bleed_size, line_length)) = 32
    /\ result.px[<<5, 0>>] = CUT_LINES_COLOR

\* C6: the marks start at offsets CUT_LINE_OFFSET - 1 and
\* orig - 1 - CUT_LINE_OFFSET from the top left of the original image (the
\* mark pixels are exactly the eight rectangles at those offsets, clipped to
\* the canvas), and the placement is mirror-symmetric: the set of mark pixels
\* is its own image under the left-right and the top-bottom mirror of the
\* canvas.
C6_MarkOffsetsSymmetric ==
    pc = "cut" =>
        LET L  == line_length
            em == ExpectedMarks(bled.w, bled.h, bleed_size, L)
            marks == MarkPixels(bled.w, bled.h, bleed_size, L)
        IN  /\ marks = UNION {RectPixels(em[i]) : i \in 1 .. 8} \cap Grid(result.w, result.h)
            /\ \A p \in marks : result.px[p] = CUT_LINES_COLOR
            /\ \A p \in marks :
                  /\ <<result.w - 1 - p[1], p[2]>> \in marks
                  /\ <<p[1], result.h - 1 - p[2]>> \in marks

C6_Witness ==
    /\ pc = "cut"
    /\ image_1.w = 6 /\ image_1.h = 5
    /\ bleed_size = 2
    /\ line_length = 2
    /\ result.px[<<5, 0>>] = CUT_LINES_COLOR
    /\ result.px[<<8, 0>>] = CUT_LINES_COLOR
    /\ result.px[<<0, 7>>] = CUT_LINES_COLOR
    /\ result.px[<<13, 12>>] = PAD_COLOR

----------------------------------------------------------------------------
(* Specification of the stacking: one call of bleed_stack_cut on two input *)
(* images.  cut_1 and cut_2 record the two images after transform_image,   *)
(* before the second one is cropped.                                       *)

InitStack ==
    /\ pc = "start"
    /\ raised = "none"
    /\ \E w \in 1 .. MaxStackDim, h \in 1 .. MaxStackDim :
          image_1 = SourceImage(1, w, h, "coords")
    /\ \E w \in 1 .. MaxStackDim, h \in 1 .. MaxStackDim :
          image_2 = SourceImage(2, w, h, "coords")
    /\ bleed_size \in 0 .. MaxStackBleed
    /\ line_length \in 1 .. MaxStackLine
    /\ add_bleed \in {"smear", "flip"}
    /\ rotator \in {"left", "right"}
    /\ bled = NoImage
    /\ cut_1 = NoImage
    /\ cut_2 = NoImage
    /\ result = NoImage
    /\ cropped = NoImage
    /\ sources = <<>>
    /\ target_size = <<0, 0>>
    /\ batch = 0
    /\ tater = 0
    /\ saved = <<>>

CallBleedStackCut ==
    /\ pc = "start"
    /\ cut_1' = transform_image(add_bleed, rotator, image_1, bleed_size, line_length)
    /\ cut_2' = transform_image(add_bleed, rotator, image_2, bleed_size, line_length)
    /\ result' = bleed_stack_cut(add_bleed, rotator, image_1, image_2,
                                 bleed_size, line_length)
    /\ pc' = "stacked"
    /\ UNCHANGED <<raised, image_1, image_2, bleed_size, line_length, add_bleed,
                   rotator, bled, cropped, sources, target_size, batch, tater, saved>>

NextStack == CallBleedStackCut

SpecStack == InitStack /\ [][NextStack]_vars

----------------------------------------------------------------------------
(* Properties of the stacking *)

\* The pixels of the bottom vertical marks of the first image, in the
\* coordinates of cut_1 (which the sheet shares: cut_1 is pasted at (0, 0)).
BottomMarkPixels ==
    {p \in MarkPixels(cut_1.w - 2 * line_length, cut_1.h - 2 * line_length,
                      bleed_size, line_length) :
        p[2] >= cut_1.h - line_length}

----------------------------------------------------------------------------
(* Specification of the batch: process_images over the sorted files of     *)
(* SOURCE_FOLDER, two at a time, and for every pair one sheet per entry of *)
(* taters.  A file is readable (Image.open returns its image) or not       *)
(* (Image.open raises).  Nothing in process_images or main catches an      *)
(* exception: it leaves the loop and ends the run.  BLEED_SIZE,            *)
(* CUT_LINE_LENGTH and TARGET_SIZE are fixed for a run and drawn small.    *)

\* The image in file k of the folder
FileImage(k) == SourceImage(k, 1 + (k % 2), 1, "coords")

InitBatch ==
    /\ pc = "open"
    /\ raised = "none"
    /\ \E n \in 1 .. MaxFiles : sources \in [1 .. n -> BOOLEAN]
    /\ bleed_size \in {0, 2}
    /\ line_length = 1
    /\ target_size \in {2, MaxTarget} \X {2, MaxTarget}
    /\ add_bleed = "flip"
    /\ rotator = "none"
    /\ image_1 = NoImage
    /\ image_2 = NoImage
    /\ bled = NoImage
    /\ cut_1 = NoImage
    /\ cut_2 = NoImage
    /\ result = NoImage
    /\ cropped = NoImage
    /\ batch = 0
    /\ tater = 0
    /\ saved = {}

\* The head of the outer loop: the next batch of two paths is unpacked and
\* both images are opened.
OpenPair ==
    /\ pc = "open"
    /\ 2 * batch < Len(sources)
    /\ IF 2 * batch + 2 > Len(sources)
       THEN \* a last batch of one path does not unpack into (path_1, path_2)
            /\ raised' = "ValueError"
            /\ pc' = "raised"
            /\ UNCHANGED <<image_1, image_2, tater>>
       ELSE IF ~sources[2 * batch + 1] \/ ~sources[2 * batch + 2]
       THEN /\ raised' = "IOFailure"
            /\ pc' = "raised"
            /\ UNCHANGED <<image_1, image_2, tater>>
       ELSE /\ image_1' = FileImage(2 * batch + 1)
            /\ image_2' = FileImage(2 * batch + 2)
            /\ tater' = 1
            /\ pc' = "tater"
            /\ UNCHANGED raised
    /\ UNCHANGED <<bleed_size, line_length, add_bleed, rotator, bled, cut_1, cut_2,
                   result, cropped, sources, target_size, batch, saved>>

\* One pass of the inner loop: bleed_stack_cut, the crop and save_to_results.
ProcessTater ==
    /\ pc = "tater"
    /\ \E bsc_image \in {bleed_stack_cut(add_bleed, taters[tater], image_1, image_2,
                                         bleed_size, line_length)} :
       \E out \in {crop_to_target(bsc_image, target_size)} :
           /\ result' = bsc_image
           /\ cropped' = out
           /\ saved' = saved \cup
                 {[name |-> <<2 * batch + 1, 2 * batch + 2, taters[tater]>>,
                   image |-> out]}
    /\ rotator' = taters[tater]
    /\ IF tater < Len(taters)
       THEN tater' = tater + 1 /\ UNCHANGED <<pc, batch>>
       ELSE tater' = 0 /\ pc' = "open" /\ batch' = batch + 1
    /\ UNCHANGED <<raised, image_1, image_2, bleed_size, line_length, add_bleed,
                   bled, cut_1, cut_2, sources, target_size>>

\* The outer loop is exhausted: process_images returns.
FinishBatch ==
    /\ pc = "open"
    /\ 2 * batch >= Len(sources)
    /\ pc' = "done"
    /\ UNCHANGED <<raised, image_1, image_2, bleed_size, line_length, add_bleed,
                   rotator, bled, cut_1, cut_2, result, cropped, sources,
                   target_size, batch, tater, saved>>

NextBatch == OpenPair \/ ProcessTater \/ FinishBatch

SpecBatch == InitBatch /\ [][NextBatch]_vars

----------------------------------------------------------------------------
(* Properties of the crop and of the batch *)

TargetExceedsSheet ==
    target_size[1] > result.w \/ target_size[2] > result.h

GoodPairs ==
    {i \in 0 .. (Len(sources) \div 2) - 1 : sources[2 * i + 1] /\ sources[2 * i + 2]}

\* C9: a failure while processing one pair aborts only that pair's output:
\* when the run has ended, every pair whose own processing does not fail,
\* the pairs after a failing one included, has its outputs saved.
C9_OtherPairsSaved ==
    (pc \in {"done", "raised"}) =>
        \A i \in GoodPairs : \A t \in 1 .. Len(taters) :
            \E f \in saved : f.name = <<2 * i + 1, 2 * i + 2, taters[t]>>

====
